---- MODULE Spec2Model ----
(***************************************************************************)
(* patchpanel: a type-indexed parser registry (PatchPanel.parsers, guarded *)
(* by the embedded sync.Mutex) and the tag lookup / coercion pipeline      *)
(* GetFieldTag -> coerce -> Parser, with GetDefault on top of it.          *)
(*                                                                         *)
(* Go strings are TLA+ strings, read character by character with SubSeq.   *)
(* A reflect.Type is the string of its name.  A value of type `any` is a   *)
(* record [type, v] (dynamic type, payload); an error is a record          *)
(* [kind, msg] whose msg is the tuple of the pieces the code concatenates. *)
(***************************************************************************)
EXTENDS Integers, Sequences, FiniteSets, TLC

(***************************************************************************)
(* Bounds of the model.                                                    *)
(***************************************************************************)
NumCallers == 2

(***************************************************************************)
(* reflect.Type                                                            *)
(***************************************************************************)
NilType == "<nil>"

TypeKeys == {"string", "bool", "int", "time.Duration", "time.Time", "time.Month", "Owner"}

StructTypes == {"TestStruct", "ProbeStruct"}

Kind(t) ==
    CASE t = "string" -> "string"
      [] t = "bool" -> "bool"
      [] t = "int" -> "int"
      [] t = "time.Duration" -> "int64"
      [] t = "time.Month" -> "int"
      [] t \in {"time.Time", "Owner", "TestStruct", "ProbeStruct"} -> "struct"
      [] OTHER -> "invalid"

(***************************************************************************)
(* `any` values and errors                                                 *)
(***************************************************************************)
NilValue == [type |-> NilType, v |-> 0]

AnyEq(a, b) == a.type = b.type /\ a.v = b.v

StringValue(s) == [type |-> "string", v |-> s]

NoErr == [kind |-> "nil", msg |-> <<>>]

errorsNew(text) == [kind |-> "errors.errorString", msg |-> <<text>>]

NoFieldError(m) == [kind |-> "NoFieldError", msg |-> m]

NoValueError(m) == [kind |-> "NoValueError", msg |-> m]

UnhandledParserTypeError(m) == [kind |-> "UnhandledParserTypeError", msg |-> m]

(***************************************************************************)
(* Struct fields and tags.  A tag blob is the sequence of its key:"value"  *)
(* pairs; StructTag.Get returns the value of the first pair with the key   *)
(* and "" when there is none.                                              *)
(***************************************************************************)
EmptyField == [Name |-> "", Type |-> NilType, Tag |-> <<>>]

KV(k, v) == [key |-> k, val |-> v]

TestStruct ==
    << [Name |-> "Port", Type |-> "int", Tag |-> <<KV("default", "1357")>>],
       [Name |-> "Greeting", Type |-> "string", Tag |-> <<KV("friendly", "howdy")>>],
       [Name |-> "MaxWait", Type |-> "time.Duration", Tag |-> <<KV("default", "5m")>>],
       [Name |-> "BestMonth", Type |-> "time.Month", Tag |-> <<KV("default", "11")>>],
       [Name |-> "BackToTheFuture", Type |-> "time.Time",
        Tag |-> <<KV("dest", "1985-10-26T09:00:00-07:00")>>],
       [Name |-> "KitchenClock", Type |-> "time.Time",
        Tag |-> <<KV("dest", "3:00PM"), KV("timeFormat", "Kitchen")>>],
       [Name |-> "KitchenClockSaidOutloud", Type |-> "time.Time",
        Tag |-> <<KV("dest", "three thirty-ish"), KV("timeFormat", "Kitchen")>>],
       [Name |-> "UnknownFormat", Type |-> "time.Time",
        Tag |-> <<KV("dest", "4:00PM"), KV("timeFormat", "zzz_unknown")>>] >>

\* A second struct type handed to GetFieldTag / GetDefault: fields of every
\* declared type with the default tag absent, empty, well-formed or malformed.
ProbeStruct ==
    << [Name |-> "Name", Type |-> "string", Tag |-> <<KV("default", "")>>],
       [Name |-> "Verbose", Type |-> "bool", Tag |-> <<KV("dest", "true")>>],
       [Name |-> "Debug", Type |-> "bool", Tag |-> <<KV("default", "T"), KV("dest", "yes")>>],
       [Name |-> "Retries", Type |-> "int", Tag |-> <<KV("default", ""), KV("dest", "-12")>>],
       [Name |-> "Timeout", Type |-> "time.Duration", Tag |-> <<KV("dest", "1h30m")>>],
       [Name |-> "Started", Type |-> "time.Time",
        Tag |-> <<KV("default", "2023-01-02T15:04:05Z")>>],
       [Name |-> "Stopped", Type |-> "time.Time", Tag |-> <<>>],
       [Name |-> "Lunch", Type |-> "time.Time",
        Tag |-> <<KV("default", "12:30PM"), KV("timeFormat", " Kitchen ")>>],
       [Name |-> "Month", Type |-> "time.Month", Tag |-> <<KV("dest", "13")>>],
       [Name |-> "Owner", Type |-> "Owner", Tag |-> <<KV("default", "root")>>],
       [Name |-> "Backup", Type |-> "Owner", Tag |-> <<>>] >>

StructFields(t) ==
    CASE t = "TestStruct" -> TestStruct
      [] t = "ProbeStruct" -> ProbeStruct
      [] OTHER -> <<>>

TagGet(tag, key) ==
    IF \E i \in 1..Len(tag) : tag[i].key = key
    THEN tag[CHOOSE i \in 1..Len(tag) :
                 /\ tag[i].key = key
                 /\ \A j \in 1..(i - 1) : tag[j].key # key].val
    ELSE ""

\* reflect.Type.FieldByName: panics on a type that is not a struct.
FieldByName(t, fieldName) ==
    IF Kind(t) # "struct"
    THEN [panic |-> TRUE, ok |-> FALSE, sF |-> EmptyField]
    ELSE LET fs == StructFields(t)
         IN  IF \E i \in 1..Len(fs) : fs[i].Name = fieldName
             THEN [panic |-> FALSE, ok |-> TRUE,
                   sF |-> fs[CHOOSE i \in 1..Len(fs) : fs[i].Name = fieldName]]
             ELSE [panic |-> FALSE, ok |-> FALSE, sF |-> EmptyField]

(***************************************************************************)
(* strings and strconv                                                     *)
(***************************************************************************)
CharAt(s, i) == SubSeq(s, i, i)

IsSpace(c) == c \in {" ", "\t", "\n", "\r"}

RECURSIVE TrimLeft(_)
TrimLeft(s) ==
    IF Len(s) > 0 /\ IsSpace(CharAt(s, 1)) THEN TrimLeft(SubSeq(s, 2, Len(s))) ELSE s

RECURSIVE TrimRight(_)
TrimRight(s) ==
    IF Len(s) > 0 /\ IsSpace(CharAt(s, Len(s)))
    THEN TrimRight(SubSeq(s, 1, Len(s) - 1))
    ELSE s

TrimSpace(s) == TrimRight(TrimLeft(s))

IsDigit(c) == c \in {"0", "1", "2", "3", "4", "5", "6", "7", "8", "9"}

DigitVal(c) == CHOOSE n \in 0..9 : CharAt("0123456789", n + 1) = c

AllDigits(s) == \A i \in 1..Len(s) : IsDigit(CharAt(s, i))

RECURSIVE NatVal(_)
NatVal(s) ==
    IF Len(s) = 0 THEN 0
    ELSE NatVal(SubSeq(s, 1, Len(s) - 1)) * 10 + DigitVal(CharAt(s, Len(s)))

\* strconv.Atoi: optional sign, then one or more decimal digits.  The tag
\* values of the model are far below the int range, so ErrRange is not modelled.
Atoi(s) ==
    LET signed == Len(s) > 0 /\ CharAt(s, 1) \in {"+", "-"}
        body == IF signed THEN SubSeq(s, 2, Len(s)) ELSE s
    IN  IF Len(body) = 0 \/ ~AllDigits(body)
        THEN [val |-> 0,
              err |-> [kind |-> "strconv.NumError",
                       msg |-> <<"strconv.Atoi: parsing ", s, ": invalid syntax">>]]
        ELSE [val |-> IF signed /\ CharAt(s, 1) = "-" THEN 0 - NatVal(body) ELSE NatVal(body),
              err |-> NoErr]

ParseBool(s) ==
    IF s \in {"1", "t", "T", "TRUE", "true", "True"} THEN [val |-> TRUE, err |-> NoErr]
    ELSE IF s \in {"0", "f", "F", "FALSE", "false", "False"} THEN [val |-> FALSE, err |-> NoErr]
    ELSE [val |-> FALSE,
          err |-> [kind |-> "strconv.NumError",
                   msg |-> <<"strconv.ParseBool: parsing ", s, ": invalid syntax">>]]

(***************************************************************************)
(* package time.  A Duration is <<seconds, nanoseconds>> (both carrying    *)
(* the sign), a Time is <<year, month, day, hour, minute, second, zone     *)
(* offset in minutes>>.  The tag values of the model hold no fractional    *)
(* numbers, so the fraction branches of ParseDuration and Parse are left   *)
(* out; everything else follows the grammar of the Go functions.           *)
(***************************************************************************)
ZeroDuration == <<0, 0>>

ZeroTime == <<1, 1, 1, 0, 0, 0, 0>>

RECURSIVE DigitPrefixLen(_)
DigitPrefixLen(s) ==
    IF Len(s) > 0 /\ IsDigit(CharAt(s, 1)) THEN 1 + DigitPrefixLen(SubSeq(s, 2, Len(s))) ELSE 0

RECURSIVE UnitPrefixLen(_)
UnitPrefixLen(s) ==
    IF Len(s) > 0 /\ ~IsDigit(CharAt(s, 1)) /\ CharAt(s, 1) # "."
    THEN 1 + UnitPrefixLen(SubSeq(s, 2, Len(s)))
    ELSE 0

unitMap == {"ns", "us", "ms", "s", "m", "h"}

\* v units as <<seconds, nanoseconds>>
UnitTimes(u, v) ==
    CASE u = "ns" -> <<v \div 1000000000, v % 1000000000>>
      [] u = "us" -> <<v \div 1000000, (v % 1000000) * 1000>>
      [] u = "ms" -> <<v \div 1000, (v % 1000) * 1000000>>
      [] u = "s" -> <<v, 0>>
      [] u = "m" -> <<v * 60, 0>>
      [] u = "h" -> <<v * 3600, 0>>

DurationAdd(a, b) ==
    <<a[1] + b[1] + ((a[2] + b[2]) \div 1000000000), (a[2] + b[2]) % 1000000000>>

InvalidDuration(orig) == errorsNew("time: invalid duration " \o orig)

RECURSIVE DurationLoop(_, _, _)
DurationLoop(s, d, orig) ==
    IF Len(s) = 0 THEN [val |-> d, err |-> NoErr]
    ELSE LET n == DigitPrefixLen(s)
             rest == SubSeq(s, n + 1, Len(s))
             i == UnitPrefixLen(rest)
             u == SubSeq(rest, 1, i)
         IN  IF n = 0 THEN [val |-> ZeroDuration, err |-> InvalidDuration(orig)]
             ELSE IF i = 0
             THEN [val |-> ZeroDuration,
                   err |-> errorsNew("time: missing unit in duration " \o orig)]
             ELSE IF u \notin unitMap
             THEN [val |-> ZeroDuration,
                   err |-> errorsNew("time: unknown unit " \o u \o " in duration " \o orig)]
             ELSE DurationLoop(SubSeq(rest, i + 1, Len(rest)),
                               DurationAdd(d, UnitTimes(u, NatVal(SubSeq(s, 1, n)))), orig)

ParseDuration(orig) ==
    LET signed == Len(orig) > 0 /\ CharAt(orig, 1) \in {"+", "-"}
        neg == signed /\ CharAt(orig, 1) = "-"
        s == IF signed THEN SubSeq(orig, 2, Len(orig)) ELSE orig
        r == DurationLoop(s, ZeroDuration, orig)
    IN  IF s = "0" THEN [val |-> ZeroDuration, err |-> NoErr]
        ELSE IF s = "" THEN [val |-> ZeroDuration, err |-> InvalidDuration(orig)]
        ELSE IF neg /\ r.err = NoErr
        THEN [val |-> <<0 - r.val[1], 0 - r.val[2]>>, err |-> NoErr]
        ELSE r

\* The names of the layouts of timeFormatMap; a layout is named by its key.
timeFormatMap ==
    {"Layout", "ANSIC", "UnixDate", "RubyDate", "RFC822", "RFC822Z", "RFC850",
     "RFC1123", "RFC1123Z", "RFC3339", "RFC3339Nano", "Kitchen", "Stamp",
     "StampMilli", "StampMicro", "StampNano", "DateTime", "DateOnly", "TimeOnly"}

ParseError(layout, value) ==
    [kind |-> "time.ParseError", msg |-> <<"parsing time ", value, " as ", layout>>]

IsLeap(y) == y % 4 = 0 /\ (y % 100 # 0 \/ y % 400 = 0)

DaysIn(m, y) ==
    IF m = 2 THEN (IF IsLeap(y) THEN 29 ELSE 28)
    ELSE IF m \in {4, 6, 9, 11} THEN 30 ELSE 31

Num(s, from, to) == NatVal(SubSeq(s, from, to))

\* "2006-01-02T15:04:05Z07:00"
ParseRFC3339(v) ==
    LET digitsAt == {1, 2, 3, 4, 6, 7, 9, 10, 12, 13, 15, 16, 18, 19}
        shape == /\ Len(v) \in {20, 25}
                 /\ \A i \in digitsAt : IsDigit(CharAt(v, i))
                 /\ CharAt(v, 5) = "-" /\ CharAt(v, 8) = "-" /\ CharAt(v, 11) = "T"
                 /\ CharAt(v, 14) = ":" /\ CharAt(v, 17) = ":"
                 /\ IF Len(v) = 20 THEN CharAt(v, 20) = "Z"
                    ELSE /\ CharAt(v, 20) \in {"+", "-"}
                         /\ AllDigits(SubSeq(v, 21, 22)) /\ CharAt(v, 23) = ":"
                         /\ AllDigits(SubSeq(v, 24, 25))
        y == Num(v, 1, 4)
        mo == Num(v, 6, 7)
        d == Num(v, 9, 10)
        h == Num(v, 12, 13)
        mi == Num(v, 15, 16)
        sec == Num(v, 18, 19)
        off == IF Len(v) = 20 THEN 0
               ELSE (IF CharAt(v, 20) = "-" THEN 0 - 1 ELSE 1) * (Num(v, 21, 22) * 60 + Num(v, 24, 25))
        inRange == /\ mo \in 1..12 /\ d \in 1..DaysIn(mo, y)
                   /\ h < 24 /\ mi < 60 /\ sec < 60
                   /\ (Len(v) = 25 => Num(v, 21, 22) < 25 /\ Num(v, 24, 25) < 60)
    IN  IF shape /\ inRange
        THEN [val |-> <<y, mo, d, h, mi, sec, off>>, err |-> NoErr]
        ELSE [val |-> ZeroTime, err |-> ParseError("RFC3339", v)]

\* "3:04PM"
ParseKitchen(v) ==
    LET n == DigitPrefixLen(v)
        hl == IF n >= 2 THEN 2 ELSE n
        shape == /\ hl >= 1 /\ Len(v) = hl + 5
                 /\ CharAt(v, hl + 1) = ":"
                 /\ AllDigits(SubSeq(v, hl + 2, hl + 3))
                 /\ SubSeq(v, hl + 4, hl + 5) \in {"AM", "PM"}
        h == Num(v, 1, hl)
        mi == Num(v, hl + 2, hl + 3)
        pm == SubSeq(v, hl + 4, hl + 5) = "PM"
        hour == IF pm /\ h < 12 THEN h + 12 ELSE IF ~pm /\ h = 12 THEN 0 ELSE h
    IN  IF shape /\ h <= 12 /\ mi < 60
        THEN [val |-> <<0, 1, 1, hour, mi, 0, 0>>, err |-> NoErr]
        ELSE [val |-> ZeroTime, err |-> ParseError("Kitchen", v)]

\* time.Parse.  Only the two layouts that the tags of the model select are
\* parsed; no tag of the model names another layout of timeFormatMap.
TimeParse(layout, v) ==
    CASE layout = "RFC3339" -> ParseRFC3339(v)
      [] layout = "Kitchen" -> ParseKitchen(v)
      [] OTHER -> [val |-> ZeroTime, err |-> ParseError(layout, v)]

(***************************************************************************)
(* Parser functions.  A Parser is named by an identifier; Apply runs it.   *)
(* The five seeded by NewPatchPanel, and the month parser that the test    *)
(* registers for time.Month.                                               *)
(***************************************************************************)
Parsers == {"strParser", "boolParser", "intParser", "durationParser", "timeParser", "monthParser"}

strParser(v, parserHints) == [val |-> StringValue(v), err |-> NoErr]

boolParser(v, parserHints) ==
    LET r == ParseBool(v) IN [val |-> [type |-> "bool", v |-> r.val], err |-> r.err]

intParser(v, parserHints) ==
    LET r == Atoi(v) IN [val |-> [type |-> "int", v |-> r.val], err |-> r.err]

durationParser(v, parserHints) ==
    LET r == ParseDuration(v)
    IN  IF r.err # NoErr
        THEN [val |-> [type |-> "time.Duration", v |-> ZeroDuration], err |-> r.err]
        ELSE [val |-> [type |-> "time.Duration", v |-> r.val], err |-> NoErr]

\* Every value of a hint table built by parseHints is a string, so the
\* "timeFormat parser hint must be a string" branch cannot be taken.
timeParser(v, parserHints) ==
    LET ok == "timeFormat" \in DOMAIN parserHints
        zero == [type |-> "time.Time", v |-> ZeroTime]
    IN  IF ok /\ parserHints["timeFormat"] \notin timeFormatMap
        THEN [val |-> zero, err |-> errorsNew("unknown timeFormat provided")]
        ELSE LET timeFormatString == IF ~ok THEN "RFC3339" ELSE parserHints["timeFormat"]
                 r == TimeParse(timeFormatString, v)
             IN  IF r.err # NoErr
                 THEN [val |-> zero, err |-> r.err]
                 ELSE [val |-> [type |-> "time.Time", v |-> r.val], err |-> NoErr]

monthParser(v, parserHints) ==
    LET r == Atoi(v)
    IN  IF r.err # NoErr
        THEN [val |-> NilValue,
              err |-> errorsNew("invalid value for month, expected to convert string to int")]
        ELSE IF r.val > 12
        THEN [val |-> NilValue, err |-> errorsNew("month out of range")]
        ELSE [val |-> [type |-> "time.Month", v |-> r.val], err |-> NoErr]

Apply(parserFunc, v, parserHints) ==
    CASE parserFunc = "strParser" -> strParser(v, parserHints)
      [] parserFunc = "boolParser" -> boolParser(v, parserHints)
      [] parserFunc = "intParser" -> intParser(v, parserHints)
      [] parserFunc = "durationParser" -> durationParser(v, parserHints)
      [] parserFunc = "timeParser" -> timeParser(v, parserHints)
      [] parserFunc = "monthParser" -> monthParser(v, parserHints)

\* The registry as NewPatchPanel builds it.
NewPatchPanel ==
    [t \in {"string", "bool", "int", "time.Duration", "time.Time"} |->
        CASE t = "string" -> "strParser"
          [] t = "bool" -> "boolParser"
          [] t = "int" -> "intParser"
          [] t = "time.Duration" -> "durationParser"
          [] t = "time.Time" -> "timeParser"]

(***************************************************************************)
(* The pure parts of the resolver                                          *)
(***************************************************************************)
Range(f) == {f[i] : i \in DOMAIN f}

parseHints(sF, hints) ==
    [hintTag \in Range(hints) |-> TrimSpace(TrimSpace(TagGet(sF.Tag, hintTag)))]

\* ResolveField without the t.Kind() != reflect.Struct guard.
ResolveFieldNoKindGuard(fieldName, t) ==
    IF t = NilType
    THEN [outcome |-> "error", sF |-> EmptyField, err |-> errorsNew("nil type provided")]
    ELSE LET r == FieldByName(t, fieldName)
         IN  IF r.panic THEN [outcome |-> "panic", sF |-> EmptyField, err |-> NoErr]
             ELSE IF ~r.ok
             THEN [outcome |-> "error", sF |-> r.sF,
                   err |-> NoFieldError(<<"no such field name: ", fieldName>>)]
             ELSE [outcome |-> "found", sF |-> r.sF, err |-> NoErr]

\* ResolveField that drops the ok result of FieldByName and carries on.
ResolveFieldIgnoresOk(fieldName, t) ==
    IF t = NilType
    THEN [outcome |-> "error", sF |-> EmptyField, err |-> errorsNew("nil type provided")]
    ELSE IF Kind(t) # "struct"
    THEN [outcome |-> "error", sF |-> EmptyField,
          err |-> [kind |-> "fmt.wrapError", msg |-> <<"expected struct type, got ", Kind(t)>>]]
    ELSE [outcome |-> "found", sF |-> FieldByName(t, fieldName).sF, err |-> NoErr]

\* GetFieldTag up to the call of coerce: the guards and the field lookup.
ResolveField(fieldName, t) ==
    IF t = NilType
    THEN [outcome |-> "error", sF |-> EmptyField, err |-> errorsNew("nil type provided")]
    ELSE IF Kind(t) # "struct"
    THEN [outcome |-> "error", sF |-> EmptyField,
          err |-> [kind |-> "fmt.wrapError", msg |-> <<"expected struct type, got ", Kind(t)>>]]
    ELSE LET r == FieldByName(t, fieldName)
         IN  IF r.panic THEN [outcome |-> "panic", sF |-> EmptyField, err |-> NoErr]
             ELSE IF ~r.ok
             THEN [outcome |-> "error", sF |-> r.sF,
                   err |-> NoFieldError(<<"no such field name: ", fieldName>>)]
             ELSE [outcome |-> "found", sF |-> r.sF, err |-> NoErr]

\* reflect.TypeOf(v) in coerce: v is the raw tag value, a Go string.
TypeOfRawValue == "string"

\* coerce when the map lookup fails.
CoerceUnhandled(toType) ==
    [val |-> NilValue,
     err |-> UnhandledParserTypeError(<<"unknown type for parser: ", TypeOfRawValue>>)]

\* GetFieldTag that returns the zero StructField with a coercion error.
GetFieldTagReturnEmptyOnError(fieldName, sF, val, err) ==
    IF err # NoErr
    THEN [sF |-> EmptyField, val |-> val, err |-> err]
    ELSE [sF |-> sF, val |-> val, err |-> NoErr]

\* GetFieldTag after coerce has returned (val, err).
GetFieldTagReturn(fieldName, sF, val, err) ==
    IF err # NoErr
    THEN [sF |-> [Name |-> fieldName, Type |-> sF.Type, Tag |-> sF.Tag], val |-> val, err |-> err]
    ELSE [sF |-> sF, val |-> val, err |-> NoErr]

\* GetDefault after GetFieldTag has returned.
GetDefaultReturn(fieldName, fieldValue, err) ==
    IF err # NoErr THEN [val |-> NilValue, err |-> err]
    ELSE IF AnyEq(fieldValue, StringValue(""))
    THEN [val |-> NilValue, err |-> NoValueError(<<fieldName>>)]
    ELSE [val |-> fieldValue, err |-> NoErr]

(***************************************************************************)
(* State.  Every caller is a goroutine calling AddParser, GetFieldTag or   *)
(* GetDefault on one shared PatchPanel.                                    *)
(***************************************************************************)
VARIABLES
    parsers,     \* PatchPanel.parsers: the map from reflect.Type to Parser
    locked,      \* the state of the embedded sync.Mutex
    pc,          \* where each caller stands in its call
    frame,       \* the arguments, locals and results of each caller's call
    registered,  \* history: per type, the parser of the last AddParser that returned
    workload     \* the callers and the calls they may make (fixed by Init)

vars == <<parsers, locked, pc, frame, registered, workload>>

IdleFrame ==
    [op |-> "none", fieldName |-> "", tagName |-> "", t |-> NilType, hints |-> <<>>,
     typ |-> NilType, parser |-> "none",
     sF |-> EmptyField, v |-> "", hintTable |-> <<>>, parserFunc |-> "none",
     val |-> NilValue, err |-> NoErr, consulted |-> FALSE, panicked |-> FALSE,
     gft |-> [sF |-> EmptyField, val |-> NilValue, err |-> NoErr],
     ret |-> [val |-> NilValue, err |-> NoErr]]

FieldNames(t) == {StructFields(t)[i].Name : i \in 1..Len(StructFields(t))}

HintLists == {<<>>, <<"">>, <<"timeFormat">>}

\* One caller, every field of both struct types under every tag and hint list.
SequentialWorkload ==
    [callers |-> {1},
     addParser |-> [typ : {"string", "int", "time.Month"}, parser : {"monthParser", "strParser"}],
     getFieldTag |->
        UNION {[fieldName : FieldNames(t) \cup {"Missing"}, tagName : {"default", "dest"},
                t : {t}, hints : HintLists] : t \in StructTypes}
        \cup [fieldName : {"okay"}, tagName : {":)"}, t : {NilType, "time.Month", "int"},
              hints : HintLists],
     getDefault |->
        UNION {[fieldName : FieldNames(t) \cup {"Missing"}, t : {t}, hints : HintLists]
               : t \in StructTypes}
        \cup [fieldName : {"okay"}, t : {NilType, "time.Month"}, hints : HintLists]]

\* Several concurrent callers, a few calls of every kind.
ConcurrentWorkload ==
    [callers |-> 1..NumCallers,
     addParser |-> {[typ |-> "int", parser |-> "monthParser"],
                    [typ |-> "time.Month", parser |-> "monthParser"],
                    [typ |-> "time.Month", parser |-> "intParser"]},
     getFieldTag |->
        [fieldName : {"Port", "BestMonth"}, tagName : {"default"},
         t : {"TestStruct"}, hints : {<<>>}]
        \cup {[fieldName |-> "okay", tagName |-> ":)", t |-> NilType, hints |-> <<>>]},
     getDefault |->
        {[fieldName |-> "Greeting", t |-> "TestStruct", hints |-> <<>>]}]

InitWith(w) ==
    /\ workload = w
    /\ parsers = NewPatchPanel
    /\ locked = FALSE
    /\ pc = [p \in w.callers |-> "idle"]
    /\ frame = [p \in w.callers |-> IdleFrame]
    /\ registered = NewPatchPanel

Init == InitWith(SequentialWorkload)

InitConcurrent == InitWith(ConcurrentWorkload)

(***************************************************************************)
(* AddParser                                                               *)
(***************************************************************************)
CallAddParser(p) ==
    /\ pc[p] = "idle"
    /\ \E a \in workload.addParser :
          frame' = [frame EXCEPT ![p] = [IdleFrame EXCEPT !.op = "AddParser",
                                                          !.typ = a.typ, !.parser = a.parser]]
    /\ pc' = [pc EXCEPT ![p] = "AddParser_Lock"]
    /\ UNCHANGED <<parsers, locked, registered, workload>>

\* AddParser that goes on to the map without waiting for the mutex.
AddParserLockNoWait(p) ==
    /\ pc[p] = "AddParser_Lock"
    /\ locked' = TRUE
    /\ pc' = [pc EXCEPT ![p] = "AddParser_Store"]
    /\ UNCHANGED <<parsers, frame, registered, workload>>

\* pc.Lock()
AddParserLock(p) ==
    /\ pc[p] = "AddParser_Lock"
    /\ ~locked
    /\ locked' = TRUE
    /\ pc' = [pc EXCEPT ![p] = "AddParser_Store"]
    /\ UNCHANGED <<parsers, frame, registered, workload>>

\* A store that keeps the parser already registered for typ.
MapStoreKeepExisting(m, typ, parser) == m @@ (typ :> parser)

\* pc.parsers[typ] = parser
MapStore(m, typ, parser) == (typ :> parser) @@ m

AddParserStore(p) ==
    /\ pc[p] = "AddParser_Store"
    /\ parsers' = MapStore(parsers, frame[p].typ, frame[p].parser)
    /\ pc' = [pc EXCEPT ![p] = "AddParser_Unlock"]
    /\ UNCHANGED <<locked, frame, registered, workload>>

\* the deferred pc.Unlock(), and the return
AddParserReturn(p) ==
    /\ pc[p] = "AddParser_Unlock"
    /\ locked' = FALSE
    /\ registered' = (frame[p].typ :> frame[p].parser) @@ registered
    /\ pc' = [pc EXCEPT ![p] = "done"]
    /\ UNCHANGED <<parsers, frame, workload>>

(***************************************************************************)
(* GetFieldTag and GetDefault                                              *)
(***************************************************************************)
\* The call up to the point where coerce asks for the lock: either the call
\* returns from one of the guards or it stands before pc.Lock() in coerce.
Enter(p, op, fieldName, tagName, t, hints) ==
    LET r == ResolveField(fieldName, t)
        base == [IdleFrame EXCEPT !.op = op, !.fieldName = fieldName, !.tagName = tagName,
                                  !.t = t, !.hints = hints]
    IN  IF r.outcome = "found"
        THEN /\ pc' = [pc EXCEPT ![p] = "coerce_Lock"]
             /\ frame' = [frame EXCEPT ![p] =
                    [base EXCEPT !.sF = r.sF,
                                 !.v = TagGet(r.sF.Tag, tagName),
                                 !.hintTable = parseHints(r.sF, hints)]]
        ELSE /\ pc' = [pc EXCEPT ![p] = "done"]
             /\ frame' = [frame EXCEPT ![p] =
                    [base EXCEPT !.panicked = (r.outcome = "panic"),
                                 !.gft = [sF |-> r.sF, val |-> NilValue, err |-> r.err],
                                 !.ret = IF op = "GetDefault"
                                         THEN GetDefaultReturn(fieldName, NilValue, r.err)
                                         ELSE [val |-> NilValue, err |-> r.err]]]

CallGetFieldTag(p) ==
    /\ pc[p] = "idle"
    /\ \E c \in workload.getFieldTag :
          Enter(p, "GetFieldTag", c.fieldName, c.tagName, c.t, c.hints)
    /\ UNCHANGED <<parsers, locked, registered, workload>>

CallGetDefault(p) ==
    /\ pc[p] = "idle"
    /\ \E c \in workload.getDefault :
          Enter(p, "GetDefault", c.fieldName, "default", c.t, c.hints)
    /\ UNCHANGED <<parsers, locked, registered, workload>>

\* pc.Lock() in coerce
CoerceLock(p) ==
    /\ pc[p] = "coerce_Lock"
    /\ ~locked
    /\ locked' = TRUE
    /\ pc' = [pc EXCEPT ![p] = "coerce_Lookup"]
    /\ UNCHANGED <<parsers, frame, registered, workload>>

\* A lookup that falls back to the parser of the underlying kind.
MapLookupByKind(m, toType) ==
    IF toType \in DOMAIN m THEN [ok |-> TRUE, parserFunc |-> m[toType]]
    ELSE IF Kind(toType) \in DOMAIN m THEN [ok |-> TRUE, parserFunc |-> m[Kind(toType)]]
    ELSE [ok |-> FALSE, parserFunc |-> "none"]

\* parserFunc, ok := pc.parsers[toType]
MapLookup(m, toType) ==
    IF toType \in DOMAIN m THEN [ok |-> TRUE, parserFunc |-> m[toType]]
    ELSE [ok |-> FALSE, parserFunc |-> "none"]

CoerceLookup(p) ==
    LET toType == frame[p].sF.Type
        l == MapLookup(parsers, toType)
    IN  /\ pc[p] = "coerce_Lookup"
        /\ IF l.ok
           THEN /\ frame' = [frame EXCEPT ![p].parserFunc = l.parserFunc, ![p].consulted = TRUE]
                /\ pc' = [pc EXCEPT ![p] = "coerce_Call"]
           ELSE /\ frame' = [frame EXCEPT ![p].val = CoerceUnhandled(toType).val,
                                          ![p].err = CoerceUnhandled(toType).err,
                                          ![p].consulted = TRUE]
                /\ pc' = [pc EXCEPT ![p] = "coerce_Unlock"]
        /\ UNCHANGED <<parsers, locked, registered, workload>>

\* val, err := parserFunc(v, parserHints)
CoerceCall(p) ==
    LET r == Apply(frame[p].parserFunc, frame[p].v, frame[p].hintTable)
    IN  /\ pc[p] = "coerce_Call"
        /\ frame' = [frame EXCEPT ![p].val = r.val, ![p].err = r.err]
        /\ pc' = [pc EXCEPT ![p] = "coerce_Unlock"]
        /\ UNCHANGED <<parsers, locked, registered, workload>>

\* An Unlock written before the successful return only, not deferred.
CoerceUnlocksOnSuccess(err) == err = NoErr

\* Whether the deferred pc.Unlock() of coerce runs on the return path with err.
CoerceUnlocks(err) == TRUE

\* The deferred pc.Unlock() of coerce, then the rest of GetFieldTag and of
\* GetDefault, none of which touches shared state.
CoerceReturn(p) ==
    LET f == frame[p]
        g == GetFieldTagReturn(f.fieldName, f.sF, f.val, f.err)
    IN  /\ pc[p] = "coerce_Unlock"
        /\ locked' = IF CoerceUnlocks(f.err) THEN FALSE ELSE locked
        /\ frame' = [frame EXCEPT ![p].gft = g,
                                  ![p].ret = IF f.op = "GetDefault"
                                             THEN GetDefaultReturn(f.fieldName, g.val, g.err)
                                             ELSE [val |-> g.val, err |-> g.err]]
        /\ pc' = [pc EXCEPT ![p] = "done"]
        /\ UNCHANGED <<parsers, registered, workload>>

\* The caller has its results and is free to make its next call.
Return(p) ==
    /\ pc[p] = "done"
    /\ pc' = [pc EXCEPT ![p] = "idle"]
    /\ frame' = [frame EXCEPT ![p] = IdleFrame]
    /\ UNCHANGED <<parsers, locked, registered, workload>>

Next ==
    \E p \in workload.callers :
        \/ CallAddParser(p)
        \/ AddParserLock(p)
        \/ AddParserStore(p)
        \/ AddParserReturn(p)
        \/ CallGetFieldTag(p)
        \/ CallGetDefault(p)
        \/ CoerceLock(p)
        \/ CoerceLookup(p)
        \/ CoerceCall(p)
        \/ CoerceReturn(p)
        \/ Return(p)

Spec == Init /\ [][Next]_vars

ConcSpec == InitConcurrent /\ [][Next]_vars

\* A call in progress keeps running; sync.Mutex hands the lock to a waiter
\* (starvation mode), so a caller that can take the lock again and again
\* does take it.
Running(p) ==
    \/ AddParserStore(p) \/ AddParserReturn(p)
    \/ CoerceLookup(p) \/ CoerceCall(p) \/ CoerceReturn(p)

Fairness ==
    \A p \in 1..NumCallers :
        /\ WF_vars(Running(p))
        /\ SF_vars(AddParserLock(p) \/ CoerceLock(p))

LiveSpec == InitConcurrent /\ [][Next]_vars /\ Fairness

(***************************************************************************)
(* Properties                                                              *)
(***************************************************************************)
Callers == workload.callers

Resolving(p) == frame[p].op \in {"GetFieldTag", "GetDefault"}

\* The call of p has returned and its results are in frame[p].
Returned(p) == pc[p] = "done" /\ Resolving(p)

\* The field that the call of p names exists on the struct type it passes.
FieldExists(p) ==
    /\ frame[p].t # NilType
    /\ Kind(frame[p].t) = "struct"
    /\ frame[p].fieldName \in FieldNames(frame[p].t)

Located(p) == FieldByName(frame[p].t, frame[p].fieldName).sF

HasTag(sF, key) == \E i \in 1..Len(sF.Tag) : sF.Tag[i].key = key

InCriticalSection(p) ==
    pc[p] \in {"AddParser_Store", "AddParser_Unlock", "coerce_Lookup", "coerce_Call", "coerce_Unlock"}

\* C1: GetDefault on an existing field whose default tag is absent or empty
\* fails with NoValueError, whatever the declared type and the registry.
C1_EmptyDefaultIsNoValue ==
    \A p \in Callers :
        (/\ Returned(p) /\ frame[p].op = "GetDefault"
         /\ FieldExists(p)
         /\ TagGet(Located(p).Tag, "default") = "")
        => frame[p].ret.err.kind = "NoValueError"

\* C2: the UnhandledParserTypeError of a field whose declared type has no
\* parser names that declared type in its message.
C2_UnhandledNamesDeclaredType ==
    \A p \in Callers :
        (Returned(p) /\ frame[p].gft.err.kind = "UnhandledParserTypeError")
        => \E i \in 1..Len(frame[p].gft.err.msg) : frame[p].gft.err.msg[i] = frame[p].sF.Type

\* The parser fetched by coerce is the one of the last completed AddParser
\* for the type, or the seeded one; the lookup fails only if there is none.
C3_LookupIsLastRegistered ==
    \A p \in Callers :
        /\ pc[p] = "coerce_Call"
           => /\ frame[p].sF.Type \in DOMAIN registered
              /\ frame[p].parserFunc = registered[frame[p].sF.Type]
        /\ (pc[p] = "coerce_Unlock" /\ frame[p].parserFunc = "none")
           => frame[p].sF.Type \notin DOMAIN registered

\* A step changes the parser of a key only by storing AddParser's argument
\* under AddParser's own key, and no key leaves the map.
C3_StoreTouchesOwnKey ==
    /\ DOMAIN parsers \subseteq DOMAIN parsers'
    /\ DOMAIN NewPatchPanel \subseteq DOMAIN parsers'
    /\ \A T \in DOMAIN parsers' :
          (T \notin DOMAIN parsers \/ parsers'[T] # parsers[T])
          => \E p \in Callers : /\ pc[p] = "AddParser_Store"
                                /\ frame[p].typ = T
                                /\ parsers'[T] = frame[p].parser

\* C3: a coercion for type T runs the parser of the last completed
\* AddParser(T, .), or the seeded one if there was none, built-in keys
\* included; an AddParser changes only its own key, and no key disappears.
C3_LastWriteWins == [](C3_LookupIsLastRegistered) /\ [][C3_StoreTouchesOwnKey]_vars

\* A coercion of an int field runs the month parser that replaced the built-in.
C3_Witness ==
    \E p \in Callers :
        /\ pc[p] = "coerce_Call"
        /\ frame[p].sF.Type = "int"
        /\ frame[p].parserFunc = "monthParser"
        /\ NewPatchPanel["int"] = "intParser"

\* C4: when the field is found and coercion fails, GetFieldTag returns the
\* located field's name, type and tag, the error, and the value coerce produced.
C4_FailedCoercionKeepsDescriptor ==
    \A p \in Callers :
        (Returned(p) /\ FieldExists(p) /\ frame[p].gft.err # NoErr)
        => LET g == frame[p].gft
               raw == TagGet(Located(p).Tag, frame[p].tagName)
               produced == IF frame[p].parserFunc = "none"
                           THEN [val |-> NilValue, err |-> frame[p].err]
                           ELSE Apply(frame[p].parserFunc, raw,
                                      parseHints(Located(p), frame[p].hints))
           IN  /\ g.sF.Name = Located(p).Name /\ g.sF.Name # ""
               /\ g.sF.Type = Located(p).Type
               /\ g.sF.Tag = Located(p).Tag
               /\ g.err = produced.err
               /\ AnyEq(g.val, produced.val)
               /\ frame[p].parserFunc = "timeParser"
                  => AnyEq(g.val, [type |-> "time.Time", v |-> ZeroTime])

\* The Kitchen layout fails on "three thirty-ish": zero time and descriptor.
C4_Witness ==
    \E p \in Callers :
        /\ Returned(p) /\ frame[p].op = "GetFieldTag"
        /\ frame[p].fieldName = "KitchenClockSaidOutloud" /\ frame[p].tagName = "dest"
        /\ frame[p].hints = <<"timeFormat">>
        /\ frame[p].gft.err.kind = "time.ParseError"
        /\ frame[p].gft.sF.Name = "KitchenClockSaidOutloud"

\* C5: with a nil type or a type that is not a struct, GetFieldTag returns
\* an error, an empty descriptor and a nil value; it does not panic and it
\* never reaches the registry.
C5_BadTypeIsAnError ==
    \A p \in Callers :
        (Resolving(p) /\ (frame[p].t = NilType \/ Kind(frame[p].t) # "struct"))
        => /\ pc[p] = "done"
           /\ frame[p].gft.err # NoErr
           /\ frame[p].gft.sF = EmptyField
           /\ AnyEq(frame[p].gft.val, NilValue)
           /\ ~frame[p].panicked
           /\ ~frame[p].consulted

C5_Witness ==
    /\ \E p \in Callers :
          Returned(p) /\ frame[p].t = "time.Month" /\ frame[p].gft.err.kind = "fmt.wrapError"

C7_OneHolder ==
    /\ Cardinality({p \in Callers : InCriticalSection(p)}) <= 1
    /\ locked <=> \E p \in Callers : InCriticalSection(p)

\* A step that reads or writes the map is taken with the mutex held, by the
\* only caller between Lock and Unlock.
C7_MapAccessUnderLock ==
    /\ parsers' # parsers => (locked /\ locked')
    /\ \A p \in Callers :
          (pc[p] \in {"AddParser_Store", "coerce_Lookup"} /\ pc'[p] # pc[p])
          => /\ locked /\ locked'
             /\ \A q \in Callers \ {p} : ~InCriticalSection(q)

\* C7: the registry map is read or written only while the mutex is held; at
\* most one caller is between Lock and Unlock, and coerce releases the mutex
\* on every return path.
C7_MutualExclusion == [](C7_OneHolder) /\ [][C7_MapAccessUnderLock]_vars

\* One caller runs a parser inside coerce while another waits for the lock.
C7_Witness ==
    \E p, q \in Callers :
        /\ p # q
        /\ pc[p] = "coerce_Call"
        /\ pc[q] \in {"AddParser_Lock", "coerce_Lock"}
        /\ locked

\* The mutex is free when no call is in progress.
C8_AllReturnedLockFree ==
    (\A p \in Callers : pc[p] \in {"idle", "done"}) => ~locked

\* C8: under fair scheduling every call in progress eventually returns, also
\* one that waits for the mutex while a parser runs inside coerce, and the
\* mutex is free once all calls have returned.
C8_Terminates ==
    /\ \A p \in 1..NumCallers : (pc[p] \notin {"idle", "done"}) ~> (pc[p] = "done")
    /\ [](C8_AllReturnedLockFree)

\* A caller waits for the lock while a parser runs inside coerce of another.
C8_Witness ==
    \E p, q \in Callers :
        /\ p # q
        /\ pc[p] = "coerce_Call"
        /\ pc[q] = "coerce_Lock"

\* C9: the parser is chosen by the declared type alone, by exact type
\* identity: a time.Month field never falls back to the int parser.
C9_DispatchByDeclaredType ==
    \A p \in Callers :
        (pc[p] \in {"coerce_Call", "coerce_Unlock", "done"} /\ Resolving(p) /\ FieldExists(p))
        => LET T == Located(p).Type
           IN  IF T \in DOMAIN parsers
               THEN frame[p].parserFunc = parsers[T]
               ELSE /\ frame[p].parserFunc = "none"
                    /\ frame[p].err.kind = "UnhandledParserTypeError"

\* BestMonth's "11" would parse as an int, yet with no parser for time.Month
\* the coercion is unhandled.
C9_Witness ==
    \E p \in Callers :
        /\ Returned(p) /\ frame[p].fieldName = "BestMonth" /\ frame[p].tagName = "default"
        /\ "time.Month" \notin DOMAIN parsers
        /\ Atoi(frame[p].v).err = NoErr
        /\ frame[p].gft.err.kind = "UnhandledParserTypeError"

\* C10: a timestamp field without a timeFormat tag is parsed as RFC 3339 by
\* the built-in parser, whether or not the hint list names timeFormat.
C10_NoFormatTagMeansRFC3339 ==
    \A p \in Callers :
        (/\ Returned(p) /\ FieldExists(p)
         /\ frame[p].parserFunc = "timeParser"
         /\ ~HasTag(Located(p), "timeFormat")
         /\ ParseRFC3339(frame[p].v).err = NoErr)
        => /\ frame[p].gft.err = NoErr
           /\ AnyEq(frame[p].gft.val,
                    [type |-> "time.Time", v |-> ParseRFC3339(frame[p].v).val])

====
